---------------------------- MODULE Spec2Model ----------------------------
(***************************************************************************)
(* A model of app.py: the log-analysis pipeline analyze_logs() that the    *)
(* Flask route home() runs on every request.  Text is modelled as          *)
(* sequences of one-character strings, so that str.strip, str.split, len   *)
(* and the keyword search work on the characters the code works on.        *)
(***************************************************************************)
EXTENDS Integers, Sequences, FiniteSets, TLC

(***************************************************************************)
(* Bounds of the model.                                                    *)
(***************************************************************************)
\* longest line drawn for the parse loop's body when checked on its own
MaxLineLen == 9
\* most lines of a system_logs.txt that exists before the first request
MaxLines == 3
\* the scores of a batch drawn for the thresholding step: -1 .. MaxScore
MaxScore == 1
\* largest batch of scores drawn for the thresholding step on its own
MaxBatch == 22

(***************************************************************************)
(* Characters and strings.                                                 *)
(***************************************************************************)
SP == " "
TAB == "\t"
NL == "\n"
\* the characters str.strip() removes (of those the model uses)
Whitespace == {SP, TAB, NL}

UpperCase == <<"A","B","C","D","E","F","G","H","I","J","K","L","M","N","O","P","Q","R","S","T","U","V","W","X","Y","Z">>
LowerCase == <<"a","b","c","d","e","f","g","h","i","j","k","l","m","n","o","p","q","r","s","t","u","v","w","x","y","z">>
Digits == <<"0","1","2","3","4","5","6","7","8","9">>

Min(a, b) == IF a < b THEN a ELSE b

\* str.strip(): leading and trailing whitespace removed            (line 36)
strip(s) ==
  LET keep == {i \in 1..Len(s) : s[i] \notin Whitespace}
  IN  IF keep = {} THEN <<>>
      ELSE LET first == CHOOSE i \in keep : \A j \in keep : i <= j
               last  == CHOOSE i \in keep : \A j \in keep : j <= i
           IN  SubSeq(s, first, last)

\* a plausible slip: maxsplit forgotten, every separator splits
RECURSIVE split_all(_, _, _)
split_all(s, sep, maxsplit) ==
  LET hits == {i \in 1..Len(s) : s[i] = sep}
  IN  IF hits = {} THEN <<s>>
      ELSE LET i == CHOOSE h \in hits : \A g \in hits : h <= g
           IN  <<SubSeq(s, 1, i - 1)>> \o split_all(SubSeq(s, i + 1, Len(s)), sep, maxsplit)

\* str.split(sep, maxsplit) with a one-character separator: every single
\* occurrence of sep splits (empty parts are kept), at most maxsplit times,
\* and the remainder is the last part, verbatim                     (line 36)
RECURSIVE split(_, _, _)
split(s, sep, maxsplit) ==
  LET hits == {i \in 1..Len(s) : s[i] = sep}
  IN  IF maxsplit = 0 \/ hits = {} THEN <<s>>
      ELSE LET i == CHOOSE h \in hits : \A g \in hits : h <= g
           IN  <<SubSeq(s, 1, i - 1)>> \o split(SubSeq(s, i + 1, Len(s)), sep, maxsplit - 1)

\* the body of the parse loop for one line: the rows it appends to data,
\* none when the line has fewer than 4 parts                    (lines 36-42)
ParseLine(log) ==
  LET parts == split(strip(log), SP, 3)
  IN  IF Len(parts) < 4 THEN <<>>
      ELSE << [timestamp |-> parts[1] \o <<SP>> \o parts[2],
               level     |-> parts[3],
               message   |-> parts[4]] >>

\* a plausible slip: data.insert(0, row) instead of data.append(row)
RECURSIVE ParseLogs_prepend(_)
ParseLogs_prepend(lines) ==
  IF lines = <<>> THEN <<>>
  ELSE ParseLogs_prepend(Tail(lines)) \o ParseLine(Head(lines))

\* the parse loop: data after all lines, in file order          (lines 34-42)
RECURSIVE ParseLogs(_)
ParseLogs(lines) ==
  IF lines = <<>> THEN <<>>
  ELSE ParseLine(Head(lines)) \o ParseLogs(Tail(lines))

(***************************************************************************)
(* The sample data analyze_logs writes when system_logs.txt is missing.    *)
(***************************************************************************)
sample_logs ==
  << <<"2","0","2","4","-","0","9","-","1","0"," ","1","0",":","1","5",":","2","3"," ","I","N","F","O"," ","A","p","p","l","i","c","a","t","i","o","n"," ","s","t","a","r","t","e","d"," ","s","u","c","c","e","s","s","f","u","l","l","y">>,
     <<"2","0","2","4","-","0","9","-","1","0"," ","1","0",":","1","6",":","4","5"," ","I","N","F","O"," ","U","s","e","r"," ","l","o","g","i","n",":"," ","u","s","e","r","1","2","3">>,
     <<"2","0","2","4","-","0","9","-","1","0"," ","1","0",":","1","7",":","1","2"," ","W","A","R","N","I","N","G"," ","M","e","m","o","r","y"," ","u","s","a","g","e"," ","a","t"," ","8","5","%">>,
     <<"2","0","2","4","-","0","9","-","1","0"," ","1","0",":","1","8",":","3","3"," ","I","N","F","O"," ","D","a","t","a","b","a","s","e"," ","c","o","n","n","e","c","t","i","o","n"," ","e","s","t","a","b","l","i","s","h","e","d">>,
     <<"2","0","2","4","-","0","9","-","1","0"," ","1","0",":","1","9",":","4","4"," ","E","R","R","O","R"," ","F","a","i","l","e","d"," ","t","o"," ","c","o","n","n","e","c","t"," ","t","o"," ","e","x","t","e","r","n","a","l"," ","A","P","I">>,
     <<"2","0","2","4","-","0","9","-","1","0"," ","1","0",":","2","0",":","1","5"," ","I","N","F","O"," ","P","r","o","c","e","s","s","i","n","g"," ","b","a","t","c","h"," ","j","o","b"," ","0","0","1">>,
     <<"2","0","2","4","-","0","9","-","1","0"," ","1","0",":","2","1",":","2","2"," ","C","R","I","T","I","C","A","L"," ","D","a","t","a","b","a","s","e"," ","c","o","n","n","e","c","t","i","o","n"," ","t","i","m","e","o","u","t">>,
     <<"2","0","2","4","-","0","9","-","1","0"," ","1","0",":","2","2",":","1","1"," ","I","N","F","O"," ","B","a","t","c","h"," ","j","o","b"," ","0","0","1"," ","c","o","m","p","l","e","t","e","d">> >>

S_INFO == <<"I","N","F","O">>
S_WARNING == <<"W","A","R","N","I","N","G">>
S_ERROR == <<"E","R","R","O","R">>
S_CRITICAL == <<"C","R","I","T","I","C","A","L">>
kw_error == <<"e","r","r","o","r">>
kw_fail == <<"f","a","i","l">>
kw_timeout == <<"t","i","m","e","o","u","t">>

(***************************************************************************)
(* pandas and scikit-learn, as far as analyze_logs uses them.              *)
(***************************************************************************)
\* a numeric cell: a rational num / sqrt(den2), or NaN
Num(n) == [nan |-> FALSE, num |-> n, den2 |-> 1]
NaN == [nan |-> TRUE, num |-> 0, den2 |-> 1]

Range(s) == {s[i] : i \in 1..Len(s)}

\* a sequence given as a function, as the list of its values
AsList(s) == SubSeq(s, 1, Len(s))

RECURSIVE SumSeq(_)
SumSeq(s) == IF s = <<>> THEN 0 ELSE Head(s) + SumSeq(Tail(s))

DigitVal(c) == (CHOOSE i \in 1..10 : Digits[i] = c) - 1
IsDigits(s) == \A i \in 1..Len(s) : s[i] \in Range(Digits)
RECURSIVE NumVal(_)
NumVal(s) == IF s = <<>> THEN 0 ELSE 10 * NumVal(SubSeq(s, 1, Len(s) - 1)) + DigitVal(s[Len(s)])

DaysIn(y, m) ==
  IF m \in {4, 6, 9, 11} THEN 30
  ELSE IF m = 2 THEN (IF (y % 4 = 0 /\ y % 100 # 0) \/ y % 400 = 0 THEN 29 ELSE 28)
  ELSE 31

\* whether pd.to_datetime parses the string: the canonical form
\* YYYY-MM-DD HH:MM:SS of the sample data is parsed, free text is not
TimestampParses(ts) ==
  /\ Len(ts) = 19
  /\ ts[5] = "-" /\ ts[8] = "-" /\ ts[11] = SP /\ ts[14] = ":" /\ ts[17] = ":"
  /\ IsDigits(SubSeq(ts, 1, 4)) /\ IsDigits(SubSeq(ts, 6, 7)) /\ IsDigits(SubSeq(ts, 9, 10))
  /\ IsDigits(SubSeq(ts, 12, 13)) /\ IsDigits(SubSeq(ts, 15, 16)) /\ IsDigits(SubSeq(ts, 18, 19))
  /\ LET y == NumVal(SubSeq(ts, 1, 4))
         m == NumVal(SubSeq(ts, 6, 7))
         d == NumVal(SubSeq(ts, 9, 10))
     IN  /\ y >= 1 /\ m \in 1..12 /\ d >= 1 /\ d <= DaysIn(y, m)
         /\ NumVal(SubSeq(ts, 12, 13)) <= 23
         /\ NumVal(SubSeq(ts, 15, 16)) <= 59
         /\ NumVal(SubSeq(ts, 18, 19)) <= 59

\* a plausible slip: errors="coerce", a bad timestamp becomes NaT silently
to_datetime_coerce(data) == [raised |-> FALSE]

\* pd.to_datetime(df["timestamp"]) with the default errors="raise": one
\* unparseable timestamp raises for the whole column               (line 45)
to_datetime(data) ==
  [raised |-> \E i \in 1..Len(data) : ~TimestampParses(data[i].timestamp)]

\* df["level"].map(level_mapping): a level outside the mapping is NaN
\*                                                              (lines 48-49)
level_mapping(level) ==
  CASE level = S_INFO     -> Num(1)
    [] level = S_WARNING  -> Num(2)
    [] level = S_ERROR    -> Num(3)
    [] level = S_CRITICAL -> Num(4)
    [] OTHER              -> NaN

Lower(c) ==
  IF \E i \in 1..26 : UpperCase[i] = c
  THEN LowerCase[CHOOSE i \in 1..26 : UpperCase[i] = c]
  ELSE c

\* Series.str.contains(kw, case=False).astype(int) for a keyword without
\* regex metacharacters: a case-insensitive substring search       (line 57)
str_contains(message, kw) ==
  IF \E i \in 1..(Len(message) - Len(kw) + 1) :
        \A j \in 1..Len(kw) : Lower(message[i + j - 1]) = Lower(kw[j])
  THEN 1 ELSE 0

keywords == <<kw_error, kw_fail, kw_timeout>>

\* the row of feature_cols: level_score, message_length, contains_<kw>
\*                                                              (lines 48-60)
FeatureRow(row) ==
  << level_mapping(row.level),
     Num(Len(row.message)),
     Num(str_contains(row.message, keywords[1])),
     Num(str_contains(row.message, keywords[2])),
     Num(str_contains(row.message, keywords[3])) >>

Features(data) == AsList([i \in 1..Len(data) |-> FeatureRow(data[i])])

\* a plausible slip: the scale of a constant column left at 0
ScaleDen2_nozero(n, D) == D

\* StandardScaler's scale_ squared, times n^2: a zero variance is replaced
\* by scale 1 (sklearn's _handle_zeros_in_scale)                   (line 64)
ScaleDen2(n, D) == IF D = 0 THEN n * n ELSE D

\* one column standardised: NaN cells are left out of mean and variance
\* and stay NaN; cell x becomes (x - mean) / scale
\*   = (n*x - sum) / sqrt(n*sumsq - sum^2)       (scale 1 if the variance is 0)
ScaleColumn(col) ==
  LET vals  == {i \in 1..Len(col) : ~col[i].nan}
      n     == Cardinality(vals)
      sum   == SumSeq([i \in 1..Len(col) |-> IF col[i].nan THEN 0 ELSE col[i].num])
      sumsq == SumSeq([i \in 1..Len(col) |-> IF col[i].nan THEN 0 ELSE col[i].num * col[i].num])
      D     == n * sumsq - sum * sum
  IN  AsList([i \in 1..Len(col) |->
         IF col[i].nan THEN NaN
         ELSE [nan |-> FALSE, num |-> n * col[i].num - sum, den2 |-> ScaleDen2(n, D)]])

\* the five columns of F, each standardised
ScaleColumns(F) ==
  AsList([j \in 1..5 |-> ScaleColumn(AsList([k \in 1..Len(F) |-> F[k][j]]))])

\* the n rows of a frame given by its five columns
Rows(cols, n) ==
  AsList([i \in 1..n |-> <<cols[1][i], cols[2][i], cols[3][i], cols[4][i], cols[5][i]>>])

\* a plausible slip: a scaler that accepts an empty frame
fit_transform_unchecked(F) ==
  [raised |-> FALSE,
   X |-> Rows(ScaleColumns(F), Len(F))]

\* StandardScaler().fit_transform(df[feature_cols]): raises ValueError on a
\* frame of 0 rows, otherwise standardises every column            (line 64)
fit_transform(F) ==
  IF Len(F) = 0 THEN [raised |-> TRUE, X |-> <<>>]
  ELSE [raised |-> FALSE,
        X |-> Rows(ScaleColumns(F), Len(F))]

HasNaN(X) == \E i \in 1..Len(X) : \E j \in 1..5 : X[i][j].nan

\* whether IsolationForest.fit_predict raises on X: an empty X always,
\* NaN cells unless the installed scikit-learn accepts them         (line 68)
fit_raises(X, build) == Len(X) = 0 \/ (HasNaN(X) /\ build # "yes")

\* what the installed scikit-learn may turn out to do with NaN cells, given
\* what is known of it: it is found out at the first fit that has some
Builds(X, known) ==
  IF HasNaN(X) /\ known = "unknown" THEN {"yes", "no"} ELSE {known}

\* the decision scores the pipeline's runs take in the model: negative
\* (predicted an outlier) and not
ScoreVals == {-1, 0}

\* IsolationForest.predict: -1 for a negative decision score, else 1
\*                                                                 (line 68)
predict(x) == IF x < 0 THEN -1 ELSE 1

\* the k-th smallest value of s (k = 1 is the minimum)
kth(s, k) ==
  CHOOSE v \in Range(s) :
    /\ Cardinality({i \in 1..Len(s) : s[i] <= v}) >= k
    /\ Cardinality({i \in 1..Len(s) : s[i] < v}) < k

\* a plausible slip: the upper tail taken for the lower one
quantile_upper(s, q) ==
  LET n   == Len(s)
      pos == (100 - q) * (n - 1)
      lo  == pos \div 100
      a   == kth(s, lo + 1)
      b   == kth(s, Min(lo + 2, n))
  IN  [num |-> 100 * a + (b - a) * (pos % 100), den |-> 100]

\* Series.quantile(q / 100) with pandas' default linear interpolation, as
\* the rational num / den: position q*(n-1)/100 in the sorted values,
\* interpolated between its two neighbours                         (line 74)
quantile(s, q) ==
  LET n   == Len(s)
      pos == q * (n - 1)
      lo  == pos \div 100
      a   == kth(s, lo + 1)
      b   == kth(s, Min(lo + 2, n))
  IN  [num |-> 100 * a + (b - a) * (pos % 100), den |-> 100]

\* the quantile of line 74, in percent
QuantileQ == 5

Anomaly == "Anomaly"
Normal == "Normal"

\* a plausible slip: a score equal to the threshold flagged too
Label_le(x, threshold) ==
  IF x * threshold.den <= threshold.num THEN Anomaly ELSE Normal

\* the lambda of line 75
Label(x, threshold) ==
  IF x * threshold.den < threshold.num THEN Anomaly ELSE Normal

\* threshold and is_anomaly column for a score column           (lines 74-75)
Classify(s) ==
  LET threshold == quantile(s, QuantileQ)
  IN  AsList([i \in 1..Len(s) |-> Label(s[i], threshold)])

\* the frame analyze_logs returns                               (lines 44-81)
BuildDf(data, X, s) ==
  LET is_anomaly == Classify(s)
  IN  AsList([i \in 1..Len(data) |->
         [timestamp  |-> data[i].timestamp,
          level      |-> data[i].level,
          message    |-> data[i].message,
          features   |-> X[i],
          anomaly    |-> predict(s[i]),
          score      |-> s[i],
          is_anomaly |-> is_anomaly[i]]])

(***************************************************************************)
(* The state.                                                              *)
(***************************************************************************)
VARIABLES
  file,         \* system_logs.txt: whether it exists, and its lines
  initialFile,  \* the file as it was before the first request
  nanAccepted,  \* whether the installed IsolationForest accepts NaN cells:
                \* "unknown" until a fit meets one, then "yes" or "no"
  forest,       \* the scores IsolationForest gave, per (random_state, X)
  pc,           \* where each request is in analyze_logs
  logs,         \* each request's local logs (line 31)
  result,       \* what each request's analyze_logs returned or raised
  line,         \* parse loop's body on its own: the line
  parsed,       \*   and, once it has run, the rows it appended
  scores,       \* thresholding on its own: the score column
  classified    \*   and the is_anomaly column

vars == <<file, initialFile, nanAccepted, forest, pc, logs, result,
          line, parsed, scores, classified>>

\* the requests in flight (Flask's development server is threaded)
Procs == {1, 2}

SeqsUpTo(S, n) == UNION {[1..k -> S] : k \in 0..n}

\* lines a system_logs.txt that already exists may hold: two of the
\* sample's lines, a level outside the mapping, a timestamp that does not
\* parse, and a line of three parts
DEBUG_line == <<"2","0","2","4","-","0","9","-","1","0"," ","1","0",":","3","0",":","0","0"," ","D","E","B","U","G"," ","c","a","c","h","e"," ","m","i","s","s","\n">>
BadTimestamp_line == <<"y","e","s","t","e","r","d","a","y"," ","n","o","o","n"," ","I","N","F","O"," ","D","i","s","k"," ","f","a","i","l","u","r","e","\n">>
ThreeParts_line == <<"2","0","2","4","-","0","9","-","1","0"," ","1","0",":","3","1",":","0","0"," ","I","N","F","O","\n">>
Catalogue ==
  { sample_logs[1] \o <<NL>>, sample_logs[7] \o <<NL>>,
    DEBUG_line, BadTimestamp_line, ThreeParts_line }

Absent == [exists |-> FALSE, lines |-> <<>>]

\* a plausible slip: random_state left out, so that every fit draws its
\* seed afresh
random_state_unseeded == Cardinality(DOMAIN forest)

\* the seed the forest is built with                               (line 67)
random_state == 42

\* the parse loop's body has not run
NotParsed == [done |-> FALSE, rows |-> <<>>]

\* what a request holds before analyze_logs has returned or raised
NoResult == [status |-> "pending", raisedAt |-> 0, df |-> <<>>]
\* analyze_logs raised at the given line: nothing is returned
Raised(at) == [status |-> "error", raisedAt |-> at, df |-> <<>>]
\* analyze_logs returned df                                        (line 81)
Returned(df) == [status |-> "ok", raisedAt |-> 0, df |-> df]

(***************************************************************************)
(* analyze_logs, one action per step another request can interleave with.  *)
(***************************************************************************)
Init ==
  /\ file \in {Absent} \cup
        {[exists |-> TRUE, lines |-> l] : l \in SeqsUpTo(Catalogue, MaxLines)}
  /\ initialFile = file
  /\ nanAccepted = "unknown"
  /\ forest = <<>>
  /\ pc = [p \in Procs |-> "exists"]
  /\ logs = [p \in Procs |-> <<>>]
  /\ result = [p \in Procs |-> NoResult]
  /\ line = <<>> /\ parsed = NotParsed
  /\ scores = <<>> /\ classified = <<>>

\* if not os.path.exists("system_logs.txt")                        (line 13)
Exists(p) ==
  /\ pc[p] = "exists"
  /\ pc' = [pc EXCEPT ![p] = IF file.exists THEN "read" ELSE "create"]
  /\ UNCHANGED <<file, initialFile, nanAccepted, forest, logs, result,
                 line, parsed, scores, classified>>

\* open("system_logs.txt", "w"): the file is created, or truncated
\*                                                                 (line 24)
Create(p) ==
  /\ pc[p] = "create"
  /\ file' = [exists |-> TRUE, lines |-> <<>>]
  /\ pc' = [pc EXCEPT ![p] = "write"]
  /\ UNCHANGED <<initialFile, nanAccepted, forest, logs, result,
                 line, parsed, scores, classified>>

\* the writes of the sample lines, which stay in the file object's buffer
\* until the with block closes it: the file then holds them all
\*                                                              (lines 24-26)
WriteSample(p) ==
  /\ pc[p] = "write"
  /\ file' = [exists |-> TRUE,
              lines |-> AsList([i \in 1..Len(sample_logs) |-> sample_logs[i] \o <<NL>>])]
  /\ pc' = [pc EXCEPT ![p] = "read"]
  /\ UNCHANGED <<initialFile, nanAccepted, forest, logs, result,
                 line, parsed, scores, classified>>

\* logs = file.readlines()                                      (lines 29-31)
Read(p) ==
  /\ pc[p] = "read"
  /\ logs' = [logs EXCEPT ![p] = file.lines]
  /\ pc' = [pc EXCEPT ![p] = "analyze"]
  /\ UNCHANGED <<file, initialFile, nanAccepted, forest, result,
                 line, parsed, scores, classified>>

\* parse, featurise, scale, fit, score, threshold, return       (lines 33-81)
\* The forest is deterministic for a given random_state and X, and scores
\* equal rows equally: its scores are chosen once per (random_state, X).
Analyze(p) ==
  /\ pc[p] = "analyze"
  /\ pc' = [pc EXCEPT ![p] = "done"]
  /\ \E data \in {ParseLogs(logs[p])} :
     \E scaled \in {fit_transform(Features(data))} :
       LET X   == scaled.X
           key == <<random_state, X>>
       IN  IF to_datetime(data).raised
             THEN /\ result' = [result EXCEPT ![p] = Raised(45)]
                  /\ UNCHANGED <<forest, nanAccepted>>
           ELSE IF scaled.raised
             THEN /\ result' = [result EXCEPT ![p] = Raised(64)]
                  /\ UNCHANGED <<forest, nanAccepted>>
           ELSE \E build \in Builds(X, nanAccepted) :
                  /\ nanAccepted' = build
                  /\ IF fit_raises(X, build)
                       THEN /\ result' = [result EXCEPT ![p] = Raised(68)]
                            /\ UNCHANGED forest
                     ELSE IF key \in DOMAIN forest
                       THEN /\ result' = [result EXCEPT ![p] =
                                            Returned(BuildDf(data, X, forest[key]))]
                            /\ UNCHANGED forest
                     ELSE \E f \in [Range(X) -> ScoreVals] :
                            \E s \in {AsList([i \in 1..Len(X) |-> f[X[i]]])} :
                              /\ forest' = forest @@ (key :> s)
                              /\ result' = [result EXCEPT ![p] = Returned(BuildDf(data, X, s))]
  /\ UNCHANGED <<file, initialFile, logs, line, parsed, scores, classified>>

Next ==
  \E p \in Procs :
    \/ Exists(p)
    \/ Create(p)
    \/ WriteSample(p)
    \/ Read(p)
    \/ Analyze(p)

Spec == Init /\ [][Next]_vars

(***************************************************************************)
(* The parse loop's body on every line over a small alphabet.              *)
(***************************************************************************)
ParseAlphabet == {SP, TAB, "a"}

InitParse ==
  /\ line \in SeqsUpTo(ParseAlphabet, MaxLineLen)
  /\ parsed = NotParsed
  /\ file = Absent /\ initialFile = Absent /\ nanAccepted = "unknown"
  /\ forest = <<>>
  /\ pc = [p \in Procs |-> "done"]
  /\ logs = [p \in Procs |-> <<>>]
  /\ result = [p \in Procs |-> NoResult]
  /\ scores = <<>> /\ classified = <<>>

ParseStep ==
  /\ ~parsed.done
  /\ parsed' = [done |-> TRUE, rows |-> ParseLine(line)]
  /\ UNCHANGED <<file, initialFile, nanAccepted, forest, pc, logs, result,
                 line, scores, classified>>

NextParse == ParseStep

SpecParse == InitParse /\ [][NextParse]_vars

(***************************************************************************)
(* The thresholding step on every batch of scores of a few shapes.         *)
(***************************************************************************)
Block(v, n) == AsList([i \in 1..n |-> v])

\* the scores of the batches drawn: one value more than ScoreVals, so that
\* a batch can hold three different scores
BatchVals == (-1)..MaxScore

\* up to three runs of equal scores, in any order of values
ScoreBatches ==
  { Block(v[1], n[1]) \o Block(v[2], n[2]) \o Block(v[3], n[3]) :
      v \in BatchVals \X BatchVals \X BatchVals,
      n \in {m \in (0..MaxBatch) \X (0..MaxBatch) \X (0..MaxBatch) :
               m[1] + m[2] + m[3] \in 1..MaxBatch} }

InitThreshold ==
  /\ scores \in ScoreBatches
  /\ classified = <<>>
  /\ file = Absent /\ initialFile = Absent /\ nanAccepted = "unknown"
  /\ forest = <<>>
  /\ pc = [p \in Procs |-> "done"]
  /\ logs = [p \in Procs |-> <<>>]
  /\ result = [p \in Procs |-> NoResult]
  /\ line = <<>> /\ parsed = NotParsed

ClassifyStep ==
  /\ classified = <<>>
  /\ classified' = Classify(scores)
  /\ UNCHANGED <<file, initialFile, nanAccepted, forest, pc, logs, result,
                 line, parsed, scores>>

NextThreshold == ClassifyStep

SpecThreshold == InitThreshold /\ [][NextThreshold]_vars

(***************************************************************************)
(* Notions the properties are stated in, defined apart from the pipeline.  *)
(***************************************************************************)
RECURSIVE Insert(_, _)
Insert(x, s) ==
  IF s = <<>> THEN <<x>>
  ELSE IF x <= Head(s) THEN <<x>> \o s
  ELSE <<Head(s)>> \o Insert(x, Tail(s))

RECURSIVE Sorted(_)
Sorted(s) == IF s = <<>> THEN <<>> ELSE Insert(Head(s), Sorted(Tail(s)))

\* 100 times the linearly interpolated 0.05 quantile of a batch of scores:
\* with h = 0.05 * (N - 1), the value at the 0-based position h of the
\* sorted scores, interpolated between positions floor(h) and floor(h) + 1
Threshold100(s) ==
  LET srt  == Sorted(s)
      h100 == 5 * (Len(s) - 1)
      lo   == h100 \div 100
      hi   == IF lo + 2 <= Len(s) THEN lo + 2 ELSE Len(s)
  IN  100 * srt[lo + 1] + (h100 % 100) * (srt[hi] - srt[lo + 1])

Count(s, v) == Cardinality({i \in 1..Len(s) : s[i] = v})

\* the number of whitespace-separated tokens of a line
TokenCount(l) ==
  Cardinality({i \in 1..Len(l) :
                 l[i] \notin Whitespace /\ (i = 1 \/ l[i - 1] \in Whitespace)})

IsToken(s) == s # <<>> /\ \A i \in 1..Len(s) : s[i] \notin Whitespace

\* l is "<date> <time> <LEVEL> <message>" with the three single spaces at
\* positions i, j and k
HasForm(l, i, j, k) ==
  /\ i < j /\ j < k /\ k < Len(l)
  /\ l[i] = SP /\ l[j] = SP /\ l[k] = SP
  /\ IsToken(SubSeq(l, 1, i - 1))
  /\ IsToken(SubSeq(l, i + 1, j - 1))
  /\ IsToken(SubSeq(l, j + 1, k - 1))

Forms(l) ==
  {f \in (1..Len(l)) \X (1..Len(l)) \X (1..Len(l)) : HasForm(l, f[1], f[2], f[3])}

MessageOf(l, f) == SubSeq(l, f[3] + 1, Len(l))

\* the record the claim expects of a line of that form
ExpectedRow(l, f) ==
  [timestamp |-> SubSeq(l, 1, f[2] - 1),
   level     |-> SubSeq(l, f[2] + 1, f[3] - 1),
   message   |-> MessageOf(l, f)]

Rejoin(row) == row.timestamp \o <<SP>> \o row.level \o <<SP>> \o row.message

\* the lines of a request's input that the parse loop keeps, in file order
ValidLines(ls) == SelectSeq(ls, LAMBDA l : ParseLine(l) # <<>>)

\* what a request would read if it ran alone
StandaloneLogs ==
  IF initialFile.exists THEN initialFile.lines
  ELSE [i \in 1..Len(sample_logs) |-> sample_logs[i] \o <<NL>>]

Levels == {S_INFO, S_WARNING, S_ERROR, S_CRITICAL}

(***************************************************************************)
(* The claims.                                                             *)
(***************************************************************************)

\* C1: once a batch of N >= 1 scores is classified, a record is labelled
\* Anomaly if and only if its score is strictly below the batch's 0.05
\* quantile; a score equal to the threshold is labelled Normal.
C1_AnomalyIffStrictlyBelowThreshold ==
  classified # <<>> =>
    \A th \in {Threshold100(scores)} :
      /\ Len(classified) = Len(scores)
      /\ \A i \in 1..Len(scores) :
           (classified[i] = Anomaly) <=> (100 * scores[i] < th)
      /\ \A i \in 1..Len(scores) :
           (classified[i] = Normal) <=> (100 * scores[i] >= th)

\* C1 witness: a classified batch with a record below the threshold
\* (Anomaly) and a record exactly at the threshold (Normal).
C1_Witness ==
  /\ classified # <<>>
  /\ \E th \in {Threshold100(scores)} :
       \E i, j \in 1..Len(scores) :
         /\ classified[i] = Anomaly
         /\ 100 * scores[j] = th
         /\ classified[j] = Normal

\* C2: the number of records labelled Anomaly is at most ceil(0.05 * N)
\* plus the number of scores equal to the threshold, and is less than N
\* when N > 1 and the scores are not all identical.
C2_AnomalyCountBounded ==
  classified # <<>> =>
    \A th \in {Threshold100(scores)} :
      LET N    == Len(scores)
          ties == Cardinality({i \in 1..N : 100 * scores[i] = th})
      IN  /\ Count(classified, Anomaly) <= ((5 * N + 99) \div 100) + ties
          /\ (N > 1 /\ Cardinality(Range(scores)) > 1) => Count(classified, Anomaly) < N

\* C2 witness: a batch of more than 20 scores in which the bound
\* ceil(0.05 * N) = 2 is attained with no tie at the threshold.
C2_Witness ==
  /\ classified # <<>>
  /\ Len(scores) > 20
  /\ Count(classified, Anomaly) = 2
  /\ \A th \in {Threshold100(scores)} :
       \A i \in 1..Len(scores) : 100 * scores[i] # th

\* C3: a line with fewer than 4 whitespace-separated tokens produces no
\* record.
C3_ShortLineProducesNoRecord ==
  (parsed.done /\ TokenCount(line) < 4) => parsed.rows = <<>>

\* C4 as stated: for a line "<date> <time> <LEVEL> <message>" whose message
\* has no leading whitespace, the parse yields exactly one record, with
\* that level and that message.
C4_RoundTripNoLeadingWhitespace ==
  parsed.done =>
    \A f \in Forms(line) :
      MessageOf(line, f)[1] \notin Whitespace =>
        parsed.rows = <<ExpectedRow(line, f)>>

\* C4 amended: for a line "<date> <time> <LEVEL> <message>" whose message
\* neither starts nor ends with whitespace, the parse yields exactly one
\* record, with that level and that message (internal whitespace kept),
\* and re-joining timestamp, level and message gives the line back.
C4_RoundTripTrimmedMessage ==
  parsed.done =>
    \A f \in Forms(line) :
      ( /\ MessageOf(line, f)[1] \notin Whitespace
        /\ line[Len(line)] \notin Whitespace ) =>
          /\ parsed.rows = <<ExpectedRow(line, f)>>
          /\ Rejoin(parsed.rows[1]) = line

\* C4 witness: such a line whose message has whitespace inside has been
\* parsed into a record.
C4_Witness ==
  /\ parsed.done
  /\ parsed.rows # <<>>
  /\ \E f \in Forms(line) :
       /\ MessageOf(line, f)[1] \notin Whitespace
       /\ line[Len(line)] \notin Whitespace
       /\ \E x \in 1..Len(MessageOf(line, f)) : MessageOf(line, f)[x] \in Whitespace

\* C5: a run that returns has exactly one scored record per line the parse
\* loop kept, and the i-th record carries the timestamp, level and message
\* of the i-th kept line, in file order.
C5_OneRecordPerValidLineInOrder ==
  \A p \in Procs :
    result[p].status = "ok" =>
      LET valid == ValidLines(logs[p])
          df    == result[p].df
      IN  /\ Len(df) = Len(valid)
          /\ \A i \in 1..Len(df) :
               LET row == ParseLine(valid[i])[1]
               IN  /\ df[i].timestamp = row.timestamp
                   /\ df[i].level = row.level
                   /\ df[i].message = row.message

\* C5 witness: a run returned two different records that a dropped line
\* separates in the file.
C5_Witness ==
  \E p \in Procs :
    /\ result[p].status = "ok"
    /\ Len(logs[p]) = 3
    /\ ParseLine(logs[p][2]) = <<>>
    /\ Len(result[p].df) = 2
    /\ result[p].df[1].message # result[p].df[2].message

\* C6: a run whose input leaves no record after parsing ends with an error
\* raised before the forest is fitted (line 68), and returns no records.
C6_EmptyInputFailsBeforeFit ==
  \A p \in Procs :
    (pc[p] = "done" /\ ValidLines(logs[p]) = <<>>) =>
      /\ result[p].status = "error"
      /\ result[p].raisedAt < 68
      /\ result[p].df = <<>>

\* C6 witness: a run over a file that exists and holds only lines the
\* parse loop drops has ended.
C6_Witness ==
  \E p \in Procs :
    /\ pc[p] = "done"
    /\ initialFile.exists
    /\ logs[p] # <<>>
    /\ ValidLines(logs[p]) = <<>>
    /\ result[p].status = "error"

\* C7: every request parses the complete set of log lines, the one it
\* would read if it ran alone, and a request over the sample data returns.
C7_EveryRequestSeesTheCompleteLog ==
  \A p \in Procs :
    pc[p] = "done" =>
      /\ logs[p] = StandaloneLogs
      /\ (~initialFile.exists => result[p].status = "ok")

\* C8: a run ends either with a scored record for every line the parse
\* loop kept or with an error and no records; if the timestamp of a kept
\* line does not parse, the run ends with an error and no records.
C8_AllOrNothing ==
  \A p \in Procs :
    pc[p] = "done" =>
      LET valid == ValidLines(logs[p])
      IN  /\ \/ /\ result[p].status = "ok"
                /\ Len(result[p].df) = Len(valid)
             \/ /\ result[p].status = "error"
                /\ result[p].df = <<>>
          /\ (\E i \in 1..Len(valid) : ~TimestampParses(ParseLine(valid[i])[1].timestamp)) =>
               /\ result[p].status = "error"
               /\ result[p].df = <<>>

\* C8 witness: a run over a file with a good line and a line whose
\* timestamp does not parse has ended with an error.
C8_Witness ==
  \E p \in Procs :
    /\ pc[p] = "done"
    /\ result[p].status = "error"
    /\ \E i, j \in 1..Len(ValidLines(logs[p])) :
         /\ TimestampParses(ParseLine(ValidLines(logs[p])[i])[1].timestamp)
         /\ ~TimestampParses(ParseLine(ValidLines(logs[p])[j])[1].timestamp)

\* every feature of the one record is 0, computed without a division by
\* zero, and the record is labelled Normal
SingleRecordScored(r) ==
  /\ r.status = "ok"
  /\ Len(r.df) = 1
  /\ \A j \in 1..5 :
       /\ ~r.df[1].features[j].nan
       /\ r.df[1].features[j].den2 > 0
       /\ r.df[1].features[j].num = 0
  /\ r.df[1].is_anomaly = Normal

\* C9 as stated: a run over exactly one record completes without error,
\* every feature normalizes to 0 and the record is labelled Normal.
C9_SingleRecordAlwaysScored ==
  \A p \in Procs :
    (pc[p] = "done" /\ Len(ValidLines(logs[p])) = 1) => SingleRecordScored(result[p])

\* C9 amended: a run over exactly one record whose timestamp parses and
\* whose level is one of INFO, WARNING, ERROR, CRITICAL completes without
\* error, every feature normalizes to 0 without a division by zero, and
\* the record is labelled Normal.
C9_SingleWellFormedRecordScored ==
  \A p \in Procs :
    ( /\ pc[p] = "done"
      /\ Len(ValidLines(logs[p])) = 1
      /\ TimestampParses(ParseLine(ValidLines(logs[p])[1])[1].timestamp)
      /\ ParseLine(ValidLines(logs[p])[1])[1].level \in Levels )
    => SingleRecordScored(result[p])

\* C9 witness: a run over a file whose only kept line is well formed has
\* returned.
C9_Witness ==
  \E p \in Procs :
    /\ pc[p] = "done"
    /\ Len(ValidLines(logs[p])) = 1
    /\ result[p].status = "ok"
    /\ result[p].df[1].level \in Levels

\* C10: two runs that read the identical line sequence end identically:
\* the same error, or the same records with the same scores and labels.
C10_SameInputSameOutput ==
  \A p, q \in Procs :
    (pc[p] = "done" /\ pc[q] = "done" /\ logs[p] = logs[q]) => result[p] = result[q]

\* C10 witness: two runs, the first of which had to create
\* system_logs.txt, have both returned scored records for the same lines.
C10_Witness ==
  /\ ~initialFile.exists
  /\ \A p \in Procs : pc[p] = "done" /\ result[p].status = "ok"
  /\ logs[1] = logs[2]
  /\ \E i \in 1..Len(result[1].df) : result[1].df[i].is_anomaly = Anomaly
=============================================================================
